---- MODULE Spec2Model ----
(***************************************************************************)
(* A model of triangulate2.c (GMT module "triangulate2"): option parsing,  *)
(* the run of GMT_triangulate2 from parsing to the final Return, the       *)
(* per-triangle rasterization of the gridding branch and the extraction of *)
(* unique triangle edges.                                                  *)
(*                                                                         *)
(* Numbers: coordinates and grid values are exact rationals <<num, den>>   *)
(* (den > 0, lowest terms); a division by zero gives NonFinite, which      *)
(* absorbs every later operation as IEEE inf/NaN do.  The (float) cast of  *)
(* the grid store is not modelled.                                         *)
(***************************************************************************)
EXTENDS Integers, Sequences, FiniteSets, TLC

(* ------------------------------ bounds --------------------------------- *)

\* Stand-in for INT_MAX on line 413: the point count at which reading aborts.
PointLimit == 4
\* Largest number of triangles (or Voronoi edges) the engine returns.
MaxTri == 2
\* Point coordinates are multiples of 1/Unit.
Unit == 2
\* The region is 0/NInt/0/NInt with grid spacing 1.
NInt == 2
\* Stand-in for GMT_INITIAL_MEM_ROW_ALLOC on line 351.
InitialAlloc == 2
\* Boundary rows/columns around the grid (GMT's default pad), used by gmt_M_ijp.
Pad == 2

(* ------------------------------ rationals ------------------------------ *)

RECURSIVE GCD(_, _)
GCD(a, b) == IF b = 0 THEN a ELSE GCD(b, a % b)

Abs(i) == IF i < 0 THEN -i ELSE i

NonFinite == <<1, 0>>

Rat(num, den) ==
    IF den = 0 THEN NonFinite
    ELSE LET g == GCD(Abs(num), Abs(den))
             s == IF den < 0 THEN -1 ELSE 1
         IN  <<s * (num \div g), s * (den \div g)>>

RInt(i) == <<i, 1>>
RAdd(p, q) == IF p[2] = 0 \/ q[2] = 0 THEN NonFinite
              ELSE Rat(p[1] * q[2] + q[1] * p[2], p[2] * q[2])
RNeg(p) == IF p[2] = 0 THEN NonFinite ELSE <<-p[1], p[2]>>
RSub(p, q) == RAdd(p, RNeg(q))
RMul(p, q) == IF p[2] = 0 \/ q[2] = 0 THEN NonFinite
              ELSE Rat(p[1] * q[1], p[2] * q[2])
RDiv(p, q) == IF p[2] = 0 \/ q[2] = 0 THEN NonFinite
              ELSE Rat(p[1] * q[2], p[2] * q[1])
RLess(p, q) == p[1] * q[2] < q[1] * p[2]
RLeq(p, q) == p[1] * q[2] <= q[1] * p[2]
RMin(p, q) == IF RLess(p, q) THEN p ELSE q
RMax(p, q) == IF RLess(q, p) THEN p ELSE q

\* Floor of a finite rational.
RFloor(p) == p[1] \div p[2]

\* irint/lrint: round to nearest, ties to even.
irint(p) ==
    LET f == RFloor(p)
        twice == 2 * (p[1] - f * p[2])      \* 2 * fractional part * den
    IN  IF twice < p[2] THEN f
        ELSE IF twice > p[2] THEN f + 1
        ELSE IF f % 2 = 0 THEN f ELSE f + 1

(* ------------------------------ state ---------------------------------- *)

VARIABLES
    args,        \* the options as the user gave them
    Ctrl,        \* struct TRIANGULATE2_CTRL (flags), after parse
    parseRet,    \* value returned by parse, "none" before it ran
    pc,          \* position of GMT_triangulate2
    status,      \* value returned by GMT_triangulate2, "running" before
    failedAt,    \* the call whose failure ended the run, "none" otherwise
    mem,         \* xx, yy, zz, hh, vv: "NULL" or "LIVE"
    allocd,      \* buffers that were allocated in this run
    freed,       \* how many times each buffer was released
    n_alloc,
    n,           \* points read
    pts,         \* the point arrays, index-aligned (1-based here)
    readCalled,  \* GMT_Get_Record was called
    engineCalls, \* calls of gmt_delaunay / gmt_voronoi
    map_them,
    np,          \* triangles (or Voronoi edges) returned by the engine
    link,        \* triangle index triples (0-based point indices)
    Grid,        \* "NULL", "HEADER" (header only) or "DATA"
    data,        \* Grid->data by node index p (nodes inside the pad); <<>> before allocation
    slopesRead,  \* GMT_Read_Data of the slope grid was called
    tri,         \* loop counter k of the triangle loop
    lastWritten, \* <<row, col>> pairs stored while processing the latest triangle
    writer,      \* per node: the triangle whose store is in data, -1 if none
    nullDeref,   \* NULL / out-of-bounds objects the run has read through
    gridWritten, \* GMT_Write_Data of the grid completed
    out,         \* records handed to GMT_Put_Record
    edge,        \* struct TRIANGULATE2_EDGE array, entries 0 .. n_edge-1
    n_edge,
    pathsRun,    \* output paths that were executed
    hvIndexed,   \* hh[] / vv[] were indexed
    slopeSampled \* Slopes->data[] was read for some node

vars == <<args, Ctrl, parseRet, pc, status, failedAt, mem, allocd, freed, n_alloc,
          n, pts, readCalled, engineCalls, map_them, np, link, Grid, data,
          slopesRead, tri, lastWritten, writer, nullDeref, gridWritten, out,
          edge, n_edge, pathsRun, hvIndexed, slopeSampled>>

Bufs == {"xx", "yy", "zz", "hh", "vv"}

(* ------------------------------ options -------------------------------- *)

\* D: Ctrl->D.dir (GMT_X, GMT_Y or 2 = none); I: -I absent, positive, or with a
\* non-positive increment; R, J: GMT->common.R.active / J.active; r: -r (pixel
\* registration).
Options ==
    [D : {"none", "x", "y"}, G : BOOLEAN, I : {"none", "pos", "nonpos"},
     M : BOOLEAN, N : BOOLEAN, Q : BOOLEAN, S : BOOLEAN, u : BOOLEAN,
     Z : BOOLEAN, R : BOOLEAN, J : BOOLEAN, r : BOOLEAN]

B2N(b) == IF b THEN 1 ELSE 0

\* n_errors of parse.  other: an error counted by the option loop or by
\* gmt_check_binary_io; watson: GMT->current.setting.triangulate == GMT_TRIANGLE_WATSON.
n_errors(a, other, watson) ==
      B2N(other)
    + B2N(a.I = "nonpos")
    + B2N(a.G /\ (B2N(a.I # "none") + B2N(a.R)) # 2)
    + B2N(a.G /\ a.Q)
    + B2N(a.S /\ a.Q)
    + B2N(a.N /\ ~a.G)
    + B2N(a.Q /\ ~a.R)
    + B2N(a.Q /\ watson)

\* Variants of the default action: one that selects the index table whatever -G
\* says, one that never selects it.
DefaultNAlways(a) == IF ~(a.M \/ a.Q \/ a.S \/ a.N) THEN TRUE ELSE a.N
DefaultNNever(a) == a.N

\* The default action of parse: Ctrl->N.active after the last statement.
DefaultN(a) == IF ~(a.M \/ a.Q \/ a.S \/ a.N) THEN ~a.G ELSE a.N

\* A variant of parse that lets a single error pass.
parseLenient(a, other, watson) ==
    [ctrl |-> [a EXCEPT !.N = IF ~(a.M \/ a.Q \/ a.S \/ a.N) THEN ~a.G ELSE a.N],
     ret  |-> IF n_errors(a, other, watson) > 1 THEN "GMT_PARSE_ERROR" ELSE "GMT_NOERROR"]

parse(a, other, watson) ==
    [ctrl |-> [a EXCEPT !.N = DefaultN(a)],
     ret  |-> IF n_errors(a, other, watson) # 0 THEN "GMT_PARSE_ERROR" ELSE "GMT_NOERROR"]

(* ------------------------------ memory --------------------------------- *)

\* gmt_M_free: releases a live buffer and sets the pointer to NULL; no-op on NULL.
FreeIn(m, bs) == [b \in Bufs |-> IF b \in bs THEN "NULL" ELSE m[b]]
FreedIn(m, f, bs) == [b \in Bufs |-> IF b \in bs /\ m[b] = "LIVE" THEN f[b] + 1 ELSE f[b]]

n_input(c) == (IF c.G \/ c.Z THEN 3 ELSE 2) + (IF c.u THEN 2 ELSE 0)
triplets_in(c) == n_input(c) = 3
quadruplets_in(c) == n_input(c) = 4
quintuplets_in(c) == n_input(c) = 5

n_output(c) == IF c.M /\ c.Z THEN 3 ELSE IF c.N THEN 3 ELSE 2
triplets_out(c) == n_output(c) = 3

\* The buffers selected by triplets/quadruplets/quintuplets[GMT_IN] besides xx, yy.
FlaggedBufs(c) ==
    {"xx", "yy"}
    \cup (IF triplets_in(c) THEN {"zz"} ELSE {})
    \cup (IF quadruplets_in(c) THEN {"hh", "vv"} ELSE {})
    \cup (IF quintuplets_in(c) THEN {"zz", "hh", "vv"} ELSE {})

(* ------------------------------ grid header ---------------------------- *)

\* Grid->header of the grid made by GMT_Create_Data from -R0/NInt/0/NInt -I1:
\* pixel registration (-r) has xy_off = 1/2 and one node fewer per axis.
xy_off(pixel) == IF pixel THEN <<1, 2>> ELSE <<0, 1>>
n_columns(pixel) == IF pixel THEN NInt ELSE NInt + 1
n_rows(pixel) == IF pixel THEN NInt ELSE NInt + 1
mx(pixel) == n_columns(pixel) + 2 * Pad
my(pixel) == n_rows(pixel) + 2 * Pad
GridSize(pixel) == mx(pixel) * my(pixel)          \* Grid->header->size

\* gmt_M_grd_x_to_col, gmt_M_grd_y_to_row, gmt_M_grd_col_to_x, gmt_M_grd_row_to_y
\* and gmt_M_ijp for wesn = 0/NInt/0/NInt, inc = 1.
x_to_col(x, pixel) == irint(RSub(x, xy_off(pixel)))
y_to_row(y, pixel) == irint(RSub(RSub(RInt(NInt), y), xy_off(pixel)))
col_to_x(col, pixel) == RAdd(RInt(col), xy_off(pixel))
row_to_y(row, pixel) == RSub(RInt(NInt), RAdd(RInt(row), xy_off(pixel)))
ijp(row, col, pixel) == (row + Pad) * mx(pixel) + col + Pad

\* Node indices of the grid proper (inside the pad).
GridNodes(pixel) ==
    {ijp(row, col, pixel) : row \in 0 .. n_rows(pixel) - 1, col \in 0 .. n_columns(pixel) - 1}

(* ------------------------------ grid values ---------------------------- *)

\* What a node of Grid->data holds: the fill value (Ctrl->E.value), a number, or a
\* propagated sigma.  All three are integer tuples so that any two compare.
FillValue == <<1>>
NumValue(q) == <<0, q[1], q[2]>>

(* ------------------------------ winding test --------------------------- *)

\* The winding test is evaluated on coordinates in units of 1 / (2 Unit), in which
\* every point coordinate and every node coordinate is an integer.
Fix(q) == (q[1] * 2 * Unit) \div q[2]
FixXY(x, y) == <<Fix(x), Fix(y)>>

IMin(a, b) == IF a < b THEN a ELSE b
IMax(a, b) == IF a > b THEN a ELSE b

\* Twice the signed area of (A, B, P): > 0 when P is left of A -> B.
isLeft(A, B, P) == (B[1] - A[1]) * (P[2] - A[2]) - (P[1] - A[1]) * (B[2] - A[2])

OnSegment(A, B, P) ==
    /\ isLeft(A, B, P) = 0
    /\ IMin(A[1], B[1]) <= P[1] /\ P[1] <= IMax(A[1], B[1])
    /\ IMin(A[2], B[2]) <= P[2] /\ P[2] <= IMax(A[2], B[2])

\* Contribution of the edge A -> B to the winding number about P.
Crossing(A, B, P) ==
    IF A[2] <= P[2]
    THEN IF P[2] < B[2] /\ isLeft(A, B, P) > 0 THEN 1 ELSE 0
    ELSE IF B[2] <= P[2] /\ isLeft(A, B, P) < 0 THEN -1 ELSE 0

\* gmt_non_zero_winding (xp, yp, vx, vy, 4) for the closed loop V1 V2 V3 V1:
\* 0 outside, 1 on the boundary, 2 inside.
gmt_non_zero_winding(P, V) ==
    IF OnSegment(V[1], V[2], P) \/ OnSegment(V[2], V[3], P) \/ OnSegment(V[3], V[1], P)
    THEN 1
    ELSE IF Crossing(V[1], V[2], P) + Crossing(V[2], V[3], P) + Crossing(V[3], V[1], P) # 0
         THEN 2 ELSE 0

(* ------------------------------ plane fit ------------------------------ *)

\* The vertices j, k, l of a triangle as records of the point arrays.
Vertices(P, t) == <<P[t[1] + 1], P[t[2] + 1], P[t[3] + 1]>>
XY(v) == FixXY(v.x, v.y)

\* A variant of the plane fit that takes the z of vertex j where c is computed.
PlaneFitMixed(V) ==
    LET xkj == RSub(V[2].x, V[1].x)   ykj == RSub(V[2].y, V[1].y)   zkj == RSub(V[2].z, V[1].z)
        xlj == RSub(V[3].x, V[1].x)   ylj == RSub(V[3].y, V[1].y)   zlj == RSub(V[3].z, V[1].z)
        f == RDiv(RInt(1), RSub(RMul(xkj, ylj), RMul(ykj, xlj)))
        a == RMul(RNeg(f), RSub(RMul(ykj, zlj), RMul(zkj, ylj)))
        b == RMul(RNeg(f), RSub(RMul(zkj, xlj), RMul(xkj, zlj)))
        c == RAdd(RSub(RMul(RNeg(a), V[2].x), RMul(b, V[2].y)), V[1].z)
    IN  [a |-> a, b |-> b, c |-> c]

\* Coefficients of z = ax + by + c.
PlaneFit(V) ==
    LET xkj == RSub(V[2].x, V[1].x)   ykj == RSub(V[2].y, V[1].y)   zkj == RSub(V[2].z, V[1].z)
        xlj == RSub(V[3].x, V[1].x)   ylj == RSub(V[3].y, V[1].y)   zlj == RSub(V[3].z, V[1].z)
        f == RDiv(RInt(1), RSub(RMul(xkj, ylj), RMul(ykj, xlj)))
        a == RMul(RNeg(f), RSub(RMul(ykj, zlj), RMul(zkj, ylj)))
        b == RMul(RNeg(f), RSub(RMul(zkj, xlj), RMul(xkj, zlj)))
        c == RAdd(RSub(RMul(RNeg(a), V[2].x), RMul(b, V[2].y)), V[2].z)
    IN  [a |-> a, b |-> b, c |-> c]

PlaneAt(pl, xp, yp) == RAdd(RAdd(RMul(pl.a, xp), RMul(pl.b, yp)), pl.c)

(* ------------------------------ uncertainty ---------------------------- *)

\* Slopes->data[p]: the slope grid holds one of three angles, by node.
SlopeAt(p) == p % 3

\* Square of distv: (CoordsX[col] - vx)^2 + (CoordsY[row] - vy)^2.
Dist2(xp, yp, v) ==
    RAdd(RMul(RSub(xp, v.x), RSub(xp, v.x)), RMul(RSub(yp, v.y), RSub(yp, v.y)))

\* abs (distv): the C library's int abs (int), so distv = sqrt (d2) is first
\* truncated to an int.
RECURSIVE ISqrtFrom(_, _)
ISqrtFrom(q, m) == IF RLess(q, RInt((m + 1) * (m + 1))) THEN m ELSE ISqrtFrom(q, m + 1)
abs_dist(d2) == ISqrtFrom(d2, 0)

\* abs (distv) < EPS_D for EPS_D = 2.220446e-16 and an int left side.
BelowEPS_D(m) == m <= 0

\* uv = v^2 (1 + ((distv + s_H h) / delta_min)^alpha) + (tan (slope) h)^2, kept
\* as the tuple of its arguments (sqrt, pow and tan are not evaluated).
UV(v, d2, slope) == <<v.v[1], v.v[2], v.h[1], v.h[2], d2[1], d2[2], slope>>

\* sigma of one node: <<2, i>> \o uv_i for sqrt (uv_i), <<2, 4>> \o uv1 \o uv2 \o uv3
\* for the inverse-distance blend.
Sigma(V, xp, yp, slope) ==
    LET d1 == Dist2(xp, yp, V[1])   d2 == Dist2(xp, yp, V[2])   d3 == Dist2(xp, yp, V[3])
        uv1 == UV(V[1], d1, slope)  uv2 == UV(V[2], d2, slope)  uv3 == UV(V[3], d3, slope)
    IN  IF BelowEPS_D(abs_dist(d1)) THEN <<2, 1>> \o uv1
        ELSE IF BelowEPS_D(abs_dist(d2)) THEN <<2, 2>> \o uv2
        ELSE IF BelowEPS_D(abs_dist(d3)) THEN <<2, 3>> \o uv3
        ELSE <<2, 4>> \o uv1 \o uv2 \o uv3

(* ------------------------------ rasterization -------------------------- *)

\* A variant of the value selection in which -u takes precedence over -D.
CellValueSigmaFirst(c, pl, V, row, col, pixel) ==
    LET xp == col_to_x(col, pixel)
        yp == row_to_y(row, pixel)
    IN  IF c.u THEN Sigma(V, xp, yp, SlopeAt((row + Pad) * mx(pixel) + col + Pad))
        ELSE IF c.D = "x" THEN NumValue(pl.a)
        ELSE IF c.D = "y" THEN NumValue(pl.b)
        ELSE NumValue(PlaneAt(pl, xp, yp))

\* The value stored at an inside node (row, col) of the triangle with vertices V and
\* plane pl.
CellValue(c, pl, V, row, col, pixel) ==
    LET xp == col_to_x(col, pixel)
        yp == row_to_y(row, pixel)
    IN  IF c.D = "x" THEN NumValue(pl.a)
        ELSE IF c.D = "y" THEN NumValue(pl.b)
        ELSE IF ~c.u THEN NumValue(PlaneAt(pl, xp, yp))
        ELSE Sigma(V, xp, yp, SlopeAt(ijp(row, col, pixel)))

Min3(a, b, c) == RMin(RMin(a, b), c)
Max3(a, b, c) == RMax(RMax(a, b), c)

\* col_min, col_max, row_min, row_max before the adjustments.
RawBox(V, pixel) ==
    [col_min |-> x_to_col(Min3(V[1].x, V[2].x, V[3].x), pixel),
     col_max |-> x_to_col(Max3(V[1].x, V[2].x, V[3].x), pixel),
     row_min |-> y_to_row(Max3(V[1].y, V[2].y, V[3].y), pixel),
     row_max |-> y_to_row(Min3(V[1].y, V[2].y, V[3].y), pixel)]

\* The two `continue' tests: the triangle is left, right, above or below the grid.
Outside(b, pixel) ==
    \/ (b.col_max < 0) \/ (b.col_min >= n_columns(pixel))
    \/ (b.row_max < 0) \/ (b.row_min >= n_rows(pixel))

\* A variant of the boundary adjustments that leaves the window as it is.
ClampNone(b, pixel) == b

\* The four boundary adjustments.
Clamp(b, pixel) ==
    [col_min |-> IF b.col_min < 0 THEN 0 ELSE b.col_min,
     col_max |-> IF b.col_max >= n_columns(pixel) THEN n_columns(pixel) - 1 ELSE b.col_max,
     row_min |-> IF b.row_min < 0 THEN 0 ELSE b.row_min,
     row_max |-> IF b.row_max >= n_rows(pixel) THEN n_rows(pixel) - 1 ELSE b.row_max]

\* The <<row, col>> pairs the two nested loops store into for one triangle.
Stored(V, pixel) ==
    LET raw == RawBox(V, pixel)
        b == Clamp(raw, pixel)
    IN  IF Outside(raw, pixel) THEN {}
        ELSE {rc \in (b.row_min .. b.row_max) \X (b.col_min .. b.col_max) :
                gmt_non_zero_winding(FixXY(col_to_x(rc[2], pixel), row_to_y(rc[1], pixel)),
                                     <<XY(V[1]), XY(V[2]), XY(V[3])>>) # 0}

(* ------------------------------ edges ---------------------------------- *)

compare_edge(a, b) ==
    IF a[1] < b[1] THEN -1
    ELSE IF a[1] > b[1] THEN 1
    ELSE IF a[2] < b[2] THEN -1
    ELSE IF a[2] > b[2] THEN 1
    ELSE 0

\* The first loop: three edges per triangle, at ij1, ij2, ij3.
RECURSIVE BuildEdges(_)
BuildEdges(lk) ==
    IF lk = <<>> THEN <<>>
    ELSE LET t == Head(lk)
         IN  <<<<t[1], t[2]>>, <<t[2], t[3]>>, <<t[1], t[3]>>>> \o BuildEdges(Tail(lk))

\* if (begin > end) int_swap (begin, end)
SwapEdge(e) == IF e[1] > e[2] THEN <<e[2], e[1]>> ELSE e

\* qsort (edge, n_edge, ..., compare_edge): the array in compare_edge order.
RECURSIVE InsertEdge(_, _)
InsertEdge(e, s) ==
    IF s = <<>> THEN <<e>>
    ELSE IF compare_edge(e, Head(s)) <= 0 THEN <<e>> \o s
    ELSE <<Head(s)>> \o InsertEdge(e, Tail(s))

RECURSIVE qsort(_)
qsort(s) == IF s = <<>> THEN <<>> ELSE InsertEdge(Head(s), qsort(Tail(s)))

\* for (i = 1, j = 0; i < n_edge; i++) { if (edge[i] != edge[j]) j++; edge[j] = edge[i]; }
\* on the 1-based sequence e; returns <<edge, j>>.
RECURSIVE Compact(_, _, _)
Compact(e, i, j) ==
    IF i >= Len(e) THEN <<e, j>>
    ELSE LET j2 == IF e[i + 1][1] # e[j + 1][1] \/ e[i + 1][2] # e[j + 1][2] THEN j + 1 ELSE j
         IN  Compact([e EXCEPT ![j2 + 1] = e[i + 1]], i + 1, j2)

\* n_edge after `n_edge = j + 1'.
UniqueCount(lk) ==
    LET e == qsort([i \in 1 .. 3 * Len(lk) |-> SwapEdge(BuildEdges(lk)[i])])
    IN  Compact(e, 1, 0)[2] + 1

\* edge[0 .. n_edge-1] as far as it lies inside the allocated array.
UniqueEdges(lk) ==
    LET e == qsort([i \in 1 .. 3 * Len(lk) |-> SwapEdge(BuildEdges(lk)[i])])
        r == Compact(e, 1, 0)
    IN  SubSeq(r[1], 1, IF r[2] + 1 <= Len(e) THEN r[2] + 1 ELSE Len(e))

(* ------------------------------ input and engine ----------------------- *)

RAbs(q) == IF q[1] < 0 THEN RNeg(q) ELSE q

\* The i-th data record of the input (i = 0, 1, ...): the corners of the region in
\* turn, with z, h, v fields that differ from point to point.
Corners == <<<<0, 0>>, <<NInt, 0>>, <<0, NInt>>, <<NInt, NInt>>>>
InRecord(i) ==
    [x |-> RInt(Corners[(i % Len(Corners)) + 1][1]), y |-> RInt(Corners[(i % Len(Corners)) + 1][2]),
     z |-> RInt(i * i - 2), h |-> RInt(-i), v |-> RInt(i + 1)]

\* xx[n] = in[GMT_X] ... vv[n] = fabs (in[GMT_V]): the fields the flags select.
StoredPoint(c, in) ==
    [x |-> in.x, y |-> in.y,
     z |-> IF triplets_in(c) \/ quintuplets_in(c) THEN in.z ELSE RInt(0),
     h |-> IF quadruplets_in(c) \/ quintuplets_in(c) THEN RAbs(in.h) ELSE RInt(0),
     v |-> IF quadruplets_in(c) \/ quintuplets_in(c) THEN RAbs(in.v) ELSE RInt(0)]

\* Results of gmt_delaunay in the run model: the first m triangles of the strip
\* (0,1,2), (1,2,3), ... over the points read.
Strip(m) == [i \in 1 .. m |-> <<i - 1, i, i + 1>>]
StripCounts(cnt) == 0 .. (IF cnt < 3 THEN 0 ELSE IF cnt - 2 < MaxTri THEN cnt - 2 ELSE MaxTri)

\* Results of gmt_voronoi: xe[], ye[] hold two end points per edge.
VoronoiEnds(m) == [i \in 1 .. 2 * m |-> <<InRecord(i).x, InRecord(i).y>>]

(* ------------------------------ the run -------------------------------- *)

NoOptions ==
    [D |-> "none", G |-> FALSE, I |-> "none", M |-> FALSE, N |-> FALSE, Q |-> FALSE,
     S |-> FALSE, u |-> FALSE, Z |-> FALSE, R |-> FALSE, J |-> FALSE, r |-> FALSE]

ctlv == <<args, Ctrl, parseRet>>
memv == <<mem, allocd, freed, n_alloc>>
inpv == <<n, pts, readCalled>>
engv == <<engineCalls, np, link>>
grdv == <<Grid, data, slopesRead, tri, lastWritten, writer, hvIndexed, slopeSampled>>
outv == <<gridWritten, out, edge, n_edge, pathsRun>>

Start(a) ==
    /\ args = a
    /\ Ctrl = NoOptions
    /\ parseRet = "none"
    /\ status = "running"
    /\ failedAt = "none"
    /\ mem = [b \in Bufs |-> "NULL"]
    /\ allocd = {}
    /\ freed = [b \in Bufs |-> 0]
    /\ n_alloc = 0
    /\ n = 0
    /\ pts = <<>>
    /\ readCalled = FALSE
    /\ engineCalls = 0
    /\ map_them = FALSE
    /\ np = 0
    /\ link = <<>>
    /\ Grid = "NULL"
    /\ data = <<>>
    /\ slopesRead = FALSE
    /\ tri = 0
    /\ lastWritten = {}
    /\ writer = <<>>
    /\ nullDeref = {}
    /\ gridWritten = FALSE
    /\ out = <<>>
    /\ edge = <<>>
    /\ n_edge = 0
    /\ pathsRun = {}
    /\ hvIndexed = FALSE
    /\ slopeSampled = FALSE

\* -D and -r act in the gridding branch only; they are drawn together with -G.
RunOptions == {a \in Options : ~a.G => (a.D = "none" /\ ~a.r)}

Init == \E a \in RunOptions : Start(a) /\ pc = "parse_common"

\* Return (code): Free_Ctrl, gmt_end_module, return.
Return(code, at) == pc' = "done" /\ status' = code /\ failedAt' = at
Goto(next) == pc' = next /\ UNCHANGED <<status, failedAt>>
\* A read through a NULL or out-of-bounds pointer that ends the process.
Crash(at) == pc' = "crashed" /\ status' = "running" /\ failedAt' = at

\* A call that either fails, ending the run with `code', or lets the run go on.
Call(here, next, code, at) ==
    /\ pc = here
    /\ \E ok \in BOOLEAN : IF ok THEN Goto(next) ELSE Return(code, at)

\* Where the run goes after the gridding branch (or directly, without -G).
OutputOrFree(c) == IF c.M \/ c.Q \/ c.S \/ c.N THEN "out_init" ELSE "free"

\* GMT_Parse_Common
ParseCommon ==
    /\ Call("parse_common", "parse", "API_ERROR", "GMT_Parse_Common")
    /\ UNCHANGED <<ctlv, memv, inpv, engv, grdv, outv, map_them, nullDeref>>

Parse ==
    /\ pc = "parse"
    /\ \E other \in BOOLEAN, watson \in BOOLEAN :
         LET r == parse(args, other, watson)
         IN  /\ Ctrl' = r.ctrl
             /\ parseRet' = r.ret
             /\ IF r.ret # "GMT_NOERROR" THEN Return(r.ret, "parse") ELSE Goto("create_header")
    /\ UNCHANGED <<args, memv, inpv, engv, grdv, outv, map_them, nullDeref>>

\* if (Ctrl->G.active) Grid = GMT_Create_Data (... GMT_GRID_HEADER_ONLY ...)
CreateHeader ==
    /\ pc = "create_header"
    /\ IF Ctrl.G
       THEN \E ok \in BOOLEAN :
              IF ok THEN Grid' = "HEADER" /\ Goto("out_cols")
              ELSE Grid' = Grid /\ Return("API_ERROR", "GMT_Create_Data header")
       ELSE Grid' = Grid /\ Goto("out_cols")
    /\ UNCHANGED <<ctlv, memv, inpv, engv, data, slopesRead, tri, lastWritten, writer,
                   hvIndexed, slopeSampled, outv, map_them, nullDeref>>

\* gmt_set_cols (GMT, GMT_OUT, n_output)
SetOutCols ==
    /\ Call("out_cols", "map_setup", "SET_COLS_ERROR", "gmt_set_cols out")
    /\ UNCHANGED <<ctlv, memv, inpv, engv, grdv, outv, map_them, nullDeref>>

\* if (R.active && J.active) { map_them = true; gmt_map_setup (GMT, Grid->header->wesn) }
MapSetup ==
    /\ pc = "map_setup"
    /\ IF Ctrl.R /\ Ctrl.J
       THEN /\ map_them' = TRUE
            /\ nullDeref' = IF Grid = "NULL" THEN nullDeref \cup {"Grid"} ELSE nullDeref
            /\ \E res \in {"ok", "fail", "crash"} :
                 IF res = "crash" /\ Grid = "NULL" THEN Crash("Grid->header")
                 ELSE IF res = "fail" THEN Return("GMT_PROJECTION_ERROR", "gmt_map_setup")
                 ELSE Goto("in_cols")
       ELSE UNCHANGED <<map_them, nullDeref>> /\ Goto("in_cols")
    /\ UNCHANGED <<ctlv, memv, inpv, engv, grdv, outv>>

\* gmt_set_cols (GMT, GMT_IN, n_input)
SetInCols ==
    /\ Call("in_cols", "in_init", "SET_COLS_ERROR", "gmt_set_cols in")
    /\ UNCHANGED <<ctlv, memv, inpv, engv, grdv, outv, map_them, nullDeref>>

\* GMT_Init_IO (... GMT_IN ...)
InInit ==
    /\ Call("in_init", "in_begin", "API_ERROR", "GMT_Init_IO in")
    /\ UNCHANGED <<ctlv, memv, inpv, engv, grdv, outv, map_them, nullDeref>>

\* GMT_Begin_IO (... GMT_IN ...)
InBegin ==
    /\ Call("in_begin", "alloc", "API_ERROR", "GMT_Begin_IO in")
    /\ UNCHANGED <<ctlv, memv, inpv, engv, grdv, outv, map_them, nullDeref>>

\* n_alloc = GMT_INITIAL_MEM_ROW_ALLOC; xx = gmt_M_memory (...) ...; n = 0
Alloc ==
    /\ pc = "alloc"
    /\ n_alloc' = InitialAlloc
    /\ mem' = [b \in Bufs |-> IF b \in FlaggedBufs(Ctrl) THEN "LIVE" ELSE mem[b]]
    /\ allocd' = FlaggedBufs(Ctrl)
    /\ n' = 0
    /\ Goto("read")
    /\ UNCHANGED <<ctlv, freed, pts, readCalled, engv, grdv, outv, map_them, nullDeref>>

\* GMT_Get_Record returned NULL and gmt_M_rec_is_error
ReadError ==
    /\ pc = "read"
    /\ readCalled' = TRUE
    /\ mem' = FreeIn(mem, Bufs)
    /\ freed' = FreedIn(mem, freed, Bufs)
    /\ Return("GMT_RUNTIME_ERROR", "GMT_Get_Record")
    /\ UNCHANGED <<ctlv, allocd, n_alloc, n, pts, engv, grdv, outv, map_them, nullDeref>>

\* GMT_Get_Record returned NULL and gmt_M_rec_is_any_header: continue
ReadHeader ==
    /\ pc = "read"
    /\ readCalled' = TRUE
    /\ Goto("read")
    /\ UNCHANGED <<ctlv, memv, n, pts, engv, grdv, outv, map_them, nullDeref>>

\* GMT_Get_Record returned NULL and gmt_M_rec_is_eof: break
ReadEOF ==
    /\ pc = "read"
    /\ readCalled' = TRUE
    /\ Goto("in_end")
    /\ UNCHANGED <<ctlv, memv, n, pts, engv, grdv, outv, map_them, nullDeref>>

\* A data record: store it, n++, grow the arrays, stop at INT_MAX points.
ReadData ==
    /\ pc = "read"
    /\ n < PointLimit
    /\ readCalled' = TRUE
    /\ pts' = Append(pts, StoredPoint(Ctrl, InRecord(n)))
    /\ n' = n + 1
    /\ n_alloc' = IF n + 1 = n_alloc THEN 2 * n_alloc ELSE n_alloc
    /\ IF n + 1 = PointLimit
       THEN /\ mem' = FreeIn(mem, FlaggedBufs(Ctrl))
            /\ freed' = FreedIn(mem, freed, FlaggedBufs(Ctrl))
            /\ Return("GMT_RUNTIME_ERROR", "INT_MAX")
       ELSE /\ UNCHANGED <<mem, freed>>
            /\ Goto("read")
    /\ UNCHANGED <<ctlv, allocd, engv, grdv, outv, map_them, nullDeref>>

\* GMT_End_IO (API, GMT_IN, 0)
InEnd ==
    /\ Call("in_end", "shrink", "API_ERROR", "GMT_End_IO in")
    /\ UNCHANGED <<ctlv, memv, inpv, engv, grdv, outv, map_them, nullDeref>>

\* A variant of the step after reading that lacks the test `n == 0'.
ShrinkNoCheck ==
    /\ pc = "shrink"
    /\ n_alloc' = n
    /\ Goto("triangulate")
    /\ UNCHANGED <<ctlv, mem, freed, allocd, inpv, engv, grdv, outv, map_them, nullDeref>>

\* xx = gmt_M_memory (GMT, xx, n, double) ...; if (n == 0) Return (GMT_RUNTIME_ERROR).
\* gmt_M_memory with a count of 0 releases the array and returns NULL.
Shrink ==
    /\ pc = "shrink"
    /\ n_alloc' = n
    /\ IF n = 0
       THEN /\ mem' = FreeIn(mem, FlaggedBufs(Ctrl))
            /\ freed' = FreedIn(mem, freed, FlaggedBufs(Ctrl))
            /\ Return("GMT_RUNTIME_ERROR", "no points")
       ELSE /\ UNCHANGED <<mem, freed>>
            /\ Goto("triangulate")
    /\ UNCHANGED <<ctlv, allocd, inpv, engv, grdv, outv, map_them, nullDeref>>

\* np = gmt_voronoi (...) or np = gmt_delaunay (...), on projected or given coordinates
Triangulate ==
    /\ pc = "triangulate"
    /\ engineCalls' = engineCalls + 1
    /\ IF Ctrl.Q
       THEN \E m \in 0 .. MaxTri : np' = m /\ link' = link
       ELSE \E m \in StripCounts(n) : np' = m /\ link' = Strip(m)
    /\ Goto(IF Ctrl.G THEN "grid_alloc" ELSE OutputOrFree(Ctrl))
    /\ UNCHANGED <<ctlv, memv, inpv, grdv, outv, map_them, nullDeref>>

(* ------------------------------ gridding ------------------------------- *)

\* GMT_Create_Data (... GMT_GRID_DATA_ONLY ...), then every node set to Ctrl->E.value.
\* Only the nodes inside the pad are kept: the pad holds no data of the grid.
GridAlloc ==
    /\ pc = "grid_alloc"
    /\ pathsRun' = pathsRun \cup {"grid"}
    /\ \E ok \in BOOLEAN :
         IF ok
         THEN /\ Grid' = "DATA"
              /\ data' = [p \in GridNodes(Ctrl.r) |-> FillValue]
              /\ writer' = [p \in GridNodes(Ctrl.r) |-> -1]
              /\ Goto("slopes")
         ELSE /\ UNCHANGED <<Grid, data, writer>>
              /\ Return("API_ERROR", "GMT_Create_Data data")
    /\ UNCHANGED <<ctlv, memv, inpv, engv, slopesRead, tri, lastWritten, hvIndexed,
                   slopeSampled, gridWritten, out, edge, n_edge, map_them, nullDeref>>

\* Slopes = GMT_Read_Data (... Ctrl->u.file ...)
ReadSlopes ==
    /\ Call("slopes", "coords", "API_ERROR", "GMT_Read_Data slopes")
    /\ slopesRead' = TRUE
    /\ UNCHANGED <<ctlv, memv, inpv, engv, Grid, data, tri, lastWritten, writer, hvIndexed,
                   slopeSampled, outv, map_them, nullDeref>>

\* CoordsX = GMT_Get_Coord (...); CoordsY = GMT_Get_Coord (...); then k = ij = 0
GetCoords ==
    /\ Call("coords", IF np = 0 THEN "grid_comment" ELSE "grid_loop", "API_ERROR", "GMT_Get_Coord")
    /\ tri' = 0
    /\ UNCHANGED <<ctlv, memv, inpv, engv, Grid, data, slopesRead, lastWritten, writer,
                   hvIndexed, slopeSampled, outv, map_them, nullDeref>>

\* One pass of `for (k = ij = 0; k < np; k++)': plane, index window, the two node loops.
\* Without -u the arrays hh, vv are NULL when they are indexed for hj ... vl.
GridTriangle ==
    /\ pc = "grid_loop"
    /\ tri < np
    /\ hvIndexed' = TRUE
    /\ nullDeref' = IF mem["hh"] = "NULL" THEN nullDeref \cup {"hh", "vv"} ELSE nullDeref
    /\ \E crash \in (IF mem["hh"] = "NULL" THEN BOOLEAN ELSE {FALSE}) :
         IF crash
         THEN /\ Crash("hh[]")
              /\ UNCHANGED <<data, writer, lastWritten, tri, slopeSampled>>
         ELSE \E V \in {Vertices(pts, link[tri + 1])} :
              \E W \in {Stored(V, Ctrl.r)} :
              \E P \in {{ijp(rc[1], rc[2], Ctrl.r) : rc \in W}}, pl \in {PlaneFit(V)} :
                  /\ data' = [p \in DOMAIN data |->
                                IF p \in P
                                THEN LET rc == CHOOSE q \in W : ijp(q[1], q[2], Ctrl.r) = p
                                     IN  CellValue(Ctrl, pl, V, rc[1], rc[2], Ctrl.r)
                                ELSE data[p]]
                  /\ writer' = [p \in DOMAIN writer |-> IF p \in P THEN tri ELSE writer[p]]
                  /\ lastWritten' = W
                  /\ slopeSampled' = (slopeSampled \/ (Ctrl.D = "none" /\ W # {}))
                  /\ tri' = tri + 1
                  /\ Goto(IF tri + 1 = np THEN "grid_comment" ELSE "grid_loop")
    /\ UNCHANGED <<ctlv, memv, inpv, engv, Grid, slopesRead, outv, map_them>>

\* GMT_Set_Comment (...)
GridComment ==
    /\ Call("grid_comment", "grid_write", "API_ERROR", "GMT_Set_Comment")
    /\ UNCHANGED <<ctlv, memv, inpv, engv, grdv, outv, map_them, nullDeref>>

\* A variant of the grid write whose failure is reported after the file was written.
GridWriteThenFail ==
    /\ pc = "grid_write"
    /\ gridWritten' = TRUE
    /\ \E ok \in BOOLEAN :
         IF ok THEN Goto(IF Ctrl.M \/ Ctrl.Q \/ Ctrl.S \/ Ctrl.N THEN "out_init" ELSE "free")
         ELSE Return("API_ERROR", "GMT_Write_Data")
    /\ UNCHANGED <<ctlv, memv, inpv, engv, grdv, out, edge, n_edge, pathsRun, map_them, nullDeref>>

\* GMT_Write_Data (... Ctrl->G.file, Grid)
GridWrite ==
    /\ pc = "grid_write"
    /\ \E ok \in BOOLEAN :
         IF ok THEN gridWritten' = TRUE /\ Goto(OutputOrFree(Ctrl))
         ELSE gridWritten' = gridWritten /\ Return("API_ERROR", "GMT_Write_Data")
    /\ UNCHANGED <<ctlv, memv, inpv, engv, grdv, out, edge, n_edge, pathsRun, map_them, nullDeref>>

(* ------------------------------ table output --------------------------- *)

\* GMT_Init_IO (... GMT_OUT ...)
OutInit ==
    /\ Call("out_init", "out_begin", "API_ERROR", "GMT_Init_IO out")
    /\ UNCHANGED <<ctlv, memv, inpv, engv, grdv, outv, map_them, nullDeref>>

\* GMT_Begin_IO (... GMT_OUT ...)
OutBegin ==
    /\ Call("out_begin", "out_body", "API_ERROR", "GMT_Begin_IO out")
    /\ UNCHANGED <<ctlv, memv, inpv, engv, grdv, outv, map_them, nullDeref>>

\* out[] for point index i: x, y and, with triplets[GMT_OUT], z.
PointRow(i) ==
    IF i + 1 \in DOMAIN pts
    THEN IF triplets_out(Ctrl) THEN <<"xyz", pts[i + 1].x, pts[i + 1].y, pts[i + 1].z>>
         ELSE <<"xy", pts[i + 1].x, pts[i + 1].y>>
    ELSE <<"beyond xx[]">>

\* The segment header and the two coordinate records of every edge.
RECURSIVE EdgeRecords(_)
EdgeRecords(e) ==
    IF e = <<>> THEN <<>>
    ELSE <<<<"Edge", Head(e)[1], Head(e)[2]>>, PointRow(Head(e)[1]), PointRow(Head(e)[2])>>
         \o EdgeRecords(Tail(e))

\* What edge[0] holds when the array has no element: any pair.
GarbageEdges == {<<0, 0>>, <<1, 0>>}

\* The branch `Triangle edges': build, swap, qsort, compact, write.
TriangleEdges ==
    /\ pc = "out_body"
    /\ Ctrl.M /\ ~Ctrl.Q
    /\ pathsRun' = pathsRun \cup {"edges"}
    /\ n_edge' = UniqueCount(link)
    /\ IF UniqueCount(link) > 3 * np
       THEN /\ nullDeref' = nullDeref \cup {"edge"}
            /\ \E crash \in BOOLEAN, g \in GarbageEdges :
                 IF crash
                 THEN edge' = <<>> /\ out' = out /\ Crash("edge[0]")
                 ELSE edge' = <<g>> /\ out' = out \o EdgeRecords(<<g>>) /\ Goto("out_end")
       ELSE /\ nullDeref' = nullDeref
            /\ edge' = UniqueEdges(link)
            /\ out' = out \o EdgeRecords(UniqueEdges(link))
            /\ Goto("out_end")
    /\ UNCHANGED <<ctlv, memv, inpv, engv, grdv, gridWritten, map_them>>

\* The branch `Voronoi edges'.
VoronoiEdges ==
    /\ pc = "out_body"
    /\ Ctrl.Q
    /\ pathsRun' = pathsRun \cup {"voronoi"}
    /\ out' = out \o [i \in 1 .. 3 * np |->
                        IF (i - 1) % 3 = 0 THEN <<"Edge", (i - 1) \div 3>>
                        ELSE LET e == VoronoiEnds(np)[2 * ((i - 1) \div 3) + ((i - 1) % 3)]
                             IN  <<"xy", e[1], e[2]>>]
    /\ Goto("out_end")
    /\ UNCHANGED <<ctlv, memv, inpv, engv, grdv, gridWritten, edge, n_edge, map_them, nullDeref>>

\* The branch `Write triangle polygons'.
Polygons ==
    /\ pc = "out_body"
    /\ ~Ctrl.M /\ ~Ctrl.Q /\ Ctrl.S
    /\ pathsRun' = pathsRun \cup {"polygons"}
    /\ out' = out \o [i \in 1 .. 4 * np |->
                        LET t == link[(i - 1) \div 4 + 1]
                        IN  IF (i - 1) % 4 = 0 THEN <<"Polygon", t[1], t[2], t[3], (i - 1) \div 4>>
                            ELSE PointRow(t[(i - 1) % 4])]
    /\ Goto("out_end")
    /\ UNCHANGED <<ctlv, memv, inpv, engv, grdv, gridWritten, edge, n_edge, map_them, nullDeref>>

\* The branch `Write table of indices'.
IndexTable ==
    /\ pc = "out_body"
    /\ ~Ctrl.M /\ ~Ctrl.Q /\ ~Ctrl.S /\ Ctrl.N
    /\ pathsRun' = pathsRun \cup {"indices"}
    /\ out' = out \o [i \in 1 .. np |-> <<"idx", link[i][1], link[i][2], link[i][3]>>]
    /\ Goto("out_end")
    /\ UNCHANGED <<ctlv, memv, inpv, engv, grdv, gridWritten, edge, n_edge, map_them, nullDeref>>

\* GMT_End_IO (API, GMT_OUT, 0)
OutEnd ==
    /\ Call("out_end", "free", "API_ERROR", "GMT_End_IO out")
    /\ UNCHANGED <<ctlv, memv, inpv, engv, grdv, outv, map_them, nullDeref>>

\* gmt_M_free (GMT, xx) ... ; Return (GMT_NOERROR)
Free ==
    /\ pc = "free"
    /\ mem' = FreeIn(mem, FlaggedBufs(Ctrl))
    /\ freed' = FreedIn(mem, freed, FlaggedBufs(Ctrl))
    /\ Return("GMT_NOERROR", "none")
    /\ UNCHANGED <<ctlv, allocd, n_alloc, inpv, engv, grdv, outv, map_them, nullDeref>>

Next ==
    \/ ParseCommon \/ Parse \/ CreateHeader \/ SetOutCols \/ MapSetup
    \/ SetInCols \/ InInit \/ InBegin \/ Alloc
    \/ ReadError \/ ReadHeader \/ ReadEOF \/ ReadData \/ InEnd \/ Shrink
    \/ Triangulate
    \/ GridAlloc \/ ReadSlopes \/ GetCoords \/ GridTriangle \/ GridComment \/ GridWrite
    \/ OutInit \/ OutBegin \/ TriangleEdges \/ VoronoiEdges \/ Polygons \/ IndexTable \/ OutEnd
    \/ Free

Spec == Init /\ [][Next]_vars

(* ------------------------------ edge extraction alone ------------------ *)

\* Index triples with no two indices equal, and the lists the engine may return.
Triples(cnt) ==
    {t \in (0 .. cnt - 1) \X (0 .. cnt - 1) \X (0 .. cnt - 1) :
       t[1] # t[2] /\ t[2] # t[3] /\ t[1] # t[3]}
TriangleLists(cnt) == UNION {[1 .. m -> Triples(cnt)] : m \in 0 .. MaxTri}

\* The state of a run with options c that has read the points P and obtained the
\* triangle list lk from the engine, at position at.
Midrun(c, P, lk, at) ==
    /\ args = c
    /\ Ctrl = c
    /\ parseRet = "GMT_NOERROR"
    /\ pc = at
    /\ status = "running"
    /\ failedAt = "none"
    /\ mem = [b \in Bufs |-> IF b \in FlaggedBufs(c) THEN "LIVE" ELSE "NULL"]
    /\ allocd = FlaggedBufs(c)
    /\ freed = [b \in Bufs |-> 0]
    /\ n_alloc = Len(P)
    /\ n = Len(P)
    /\ pts = P
    /\ readCalled = TRUE
    /\ engineCalls = 1
    /\ map_them = FALSE
    /\ np = Len(lk)
    /\ link = lk
    /\ lastWritten = {}
    /\ nullDeref = {}
    /\ gridWritten = FALSE
    /\ out = <<>>
    /\ edge = <<>>
    /\ n_edge = 0
    /\ hvIndexed = FALSE
    /\ slopeSampled = FALSE
    /\ tri = 0

\* -M [-Z] runs that read the four corner points and reached the `Triangle edges'
\* branch with any triangle list over them.
EdgeInit ==
    \E z \in BOOLEAN, lk \in TriangleLists(Len(Corners)) :
       LET c == [NoOptions EXCEPT !.M = TRUE, !.Z = z]
       IN  /\ Midrun(c, [i \in 1 .. Len(Corners) |-> StoredPoint(c, InRecord(i - 1))], lk, "out_body")
           /\ Grid = "NULL"
           /\ data = <<>>
           /\ writer = <<>>
           /\ slopesRead = FALSE
           /\ pathsRun = {}

EdgeNext == TriangleEdges

SpecEdge == EdgeInit /\ [][EdgeNext]_vars

(* ------------------------------ rasterization alone -------------------- *)

\* Point coordinates, in units of 1/Unit: left of the grid, between two nodes, on
\* a node, right of (below) the grid.
Coord == {-(Unit + 1), 1, Unit, (NInt + 1) * Unit}
Positions == Coord \X Coord
Before(A, B) == A[1] < B[1] \/ (A[1] = B[1] /\ A[2] < B[2])

\* Points at the positions q, with the z, h, v of the first records.
PointsAt(c, q) ==
    [i \in 1 .. Len(q) |->
       StoredPoint(c, [InRecord(i - 1) EXCEPT !.x = Rat(q[i][1], Unit), !.y = Rat(q[i][2], Unit)])]

\* -G -R -I [-D] [-u] [-r] runs that reached the triangle loop.  Points 0, 1, 2 are
\* at any three distinct positions (every triangle in both orientations), point 3
\* is the centre of the region; the engine returned (0,1,2), (2,1,3).
GridInit ==
    \E d \in {"none", "x", "y"}, u \in BOOLEAN, r \in BOOLEAN,
       A \in Positions, B \in Positions, C \in Positions :
       /\ Before(A, B) /\ C # A /\ C # B
       /\ LET c == [NoOptions EXCEPT !.G = TRUE, !.I = "pos", !.R = TRUE,
                                     !.D = d, !.u = u, !.r = r]
          IN  /\ Midrun(c, PointsAt(c, <<A, B, C, <<(NInt * Unit) \div 2, (NInt * Unit) \div 2>>>>),
                        <<<<0, 1, 2>>, <<2, 1, 3>>>>, "grid_loop")
              /\ Grid = "DATA"
              /\ data = [p \in GridNodes(r) |-> FillValue]
              /\ writer = [p \in GridNodes(r) |-> -1]
              /\ slopesRead = TRUE
              /\ pathsRun = {"grid"}

GridNext == GridTriangle

SpecGrid == GridInit /\ [][GridNext]_vars

(* ------------------------------ properties: edges --------------------- *)

\* The emitted edges as a set, and the sides of the triangles of a list as pairs
\* <<smaller index, larger index>>.
Emitted == {edge[i] : i \in 1 .. Len(edge)}
Side(p, q) == IF p <= q THEN <<p, q>> ELSE <<q, p>>
MeshEdges(lk) ==
    UNION {{Side(lk[i][1], lk[i][2]), Side(lk[i][2], lk[i][3]), Side(lk[i][3], lk[i][1])} :
             i \in 1 .. Len(lk)}

\* C1: for every triangle list, the edge sequence emitted by the `Triangle edges'
\* branch is strictly increasing in (begin, end) order: every emitted edge has
\* begin <= end and no two emitted edges are equal.
C1_EdgesStrictlyIncreasing ==
    pc = "out_end" =>
       /\ \A i \in 1 .. Len(edge) : edge[i][1] <= edge[i][2]
       /\ \A i \in 1 .. Len(edge) - 1 : compare_edge(edge[i], edge[i + 1]) < 0

\* C2: for every triangle list, the set of emitted edges is exactly the set of
\* sides of the triangles, each side once.
C2_EdgesAreMeshEdges ==
    pc = "out_end" =>
       /\ Emitted = MeshEdges(link)
       /\ Len(edge) = Cardinality(MeshEdges(link))

(* ------------------------------ properties: rasterization -------------- *)

AllNodes(pixel) == (0 .. n_rows(pixel) - 1) \X (0 .. n_columns(pixel) - 1)
NodeCentre(rc, pixel) == FixXY(col_to_x(rc[2], pixel), row_to_y(rc[1], pixel))

\* The nodes of the whole grid whose centre passes the winding test for V.
InsideNodes(V, pixel) ==
    {rc \in AllNodes(pixel) :
       gmt_non_zero_winding(NodeCentre(rc, pixel), <<XY(V[1]), XY(V[2]), XY(V[3])>>) # 0}

\* The k-th triangle of the list (k = 1, 2, ...), and whether a pass of the
\* triangle loop has completed.
TriangleNo(k) == Vertices(pts, link[k])
PassDone == pc \in {"grid_loop", "grid_comment"} /\ tri > 0

\* C3: the nodes written in the pass for one triangle are exactly the nodes of the
\* grid whose centre passes the winding test for that triangle; each lies inside
\* the clamped index window; no index outside the grid is written; a triangle
\* whose window lies outside the grid writes nothing; after the last triangle every
\* node that is inside no triangle holds the fill value.
C3_WrittenNodes ==
    PassDone =>
       LET V == TriangleNo(tri)
           raw == RawBox(V, Ctrl.r)
           box == Clamp(raw, Ctrl.r)
       IN  /\ lastWritten = InsideNodes(V, Ctrl.r)
           /\ lastWritten \subseteq AllNodes(Ctrl.r)
           /\ \A rc \in lastWritten :
                /\ box.row_min <= rc[1] /\ rc[1] <= box.row_max
                /\ box.col_min <= rc[2] /\ rc[2] <= box.col_max
           /\ Outside(raw, Ctrl.r) => lastWritten = {}
           /\ pc = "grid_comment" =>
                \A rc \in AllNodes(Ctrl.r) :
                   (\A k \in 1 .. np : rc \notin InsideNodes(TriangleNo(k), Ctrl.r))
                      => data[ijp(rc[1], rc[2], Ctrl.r)] = FillValue

\* A pass that wrote nodes through a window that had to be clamped, leaving other
\* nodes at the fill value.
C3_Witness ==
    /\ PassDone
    /\ lastWritten # {}
    /\ RawBox(TriangleNo(tri), Ctrl.r) # Clamp(RawBox(TriangleNo(tri), Ctrl.r), Ctrl.r)
    /\ \E p \in DOMAIN data : data[p] = FillValue

\* The quantity the mode selects for node rc of triangle V: a with -Dx, b with -Dy,
\* else the plane value without -u and the propagated sigma with -u.
Selected(c, V, rc) ==
    LET pl == PlaneFit(V)
        xp == col_to_x(rc[2], c.r)
        yp == row_to_y(rc[1], c.r)
    IN  CASE c.D = "x" -> NumValue(pl.a)
          [] c.D = "y" -> NumValue(pl.b)
          [] c.D = "none" /\ ~c.u -> NumValue(PlaneAt(pl, xp, yp))
          [] c.D = "none" /\ c.u -> Sigma(V, xp, yp, SlopeAt(ijp(rc[1], rc[2], c.r)))

\* C4 (amended): every node written in a pass holds the quantity the mode selects:
\* a when the derivative direction is x, b when it is y (with or without
\* uncertainty mode), the plane value when neither is active, the propagated sigma
\* when uncertainty mode is active and no derivative direction is selected; every
\* node of the grid holds the fill value or the selected quantity of the triangle
\* that wrote it last.
C4_ValueByMode ==
    PassDone =>
       /\ \A rc \in lastWritten :
            data[ijp(rc[1], rc[2], Ctrl.r)] = Selected(Ctrl, TriangleNo(tri), rc)
       /\ \A rc \in AllNodes(Ctrl.r) :
            LET p == ijp(rc[1], rc[2], Ctrl.r)
            IN  IF writer[p] < 0 THEN data[p] = FillValue
                ELSE data[p] = Selected(Ctrl, TriangleNo(writer[p] + 1), rc)

\* A pass under -Dx -u that wrote a node.
C4_Witness == PassDone /\ lastWritten # {} /\ Ctrl.D = "x" /\ Ctrl.u

\* C4 as stated: a with direction x, b with direction y, the plane value when
\* neither a derivative nor uncertainty mode is active, and the propagated sigma
\* whenever uncertainty mode is active.
C4_AsStated ==
    PassDone =>
       \A rc \in lastWritten :
          LET val == data[ijp(rc[1], rc[2], Ctrl.r)]
              V == TriangleNo(tri)
              pl == PlaneFit(V)
              xp == col_to_x(rc[2], Ctrl.r)
              yp == row_to_y(rc[1], Ctrl.r)
          IN  /\ Ctrl.D = "x" => val = NumValue(pl.a)
              /\ Ctrl.D = "y" => val = NumValue(pl.b)
              /\ (Ctrl.D = "none" /\ ~Ctrl.u) => val = NumValue(PlaneAt(pl, xp, yp))
              /\ Ctrl.u => val = Sigma(V, xp, yp, SlopeAt(ijp(rc[1], rc[2], Ctrl.r)))

(* ------------------------------ properties: options -------------------- *)

Explicit(a) == a.M \/ a.Q \/ a.S \/ a.N

\* C5: after parse, if none of -M, -Q, -S, -N was given the index-table flag is set
\* exactly when -G was not given, and otherwise it is as the user gave it; a
\* run without any of the five options that completes writes the index table.
C5_DefaultIndexTable ==
    /\ parseRet # "none" =>
         /\ ~Explicit(args) => (Ctrl.N <=> ~args.G)
         /\ Explicit(args) => (Ctrl.N <=> args.N)
    /\ "indices" \in pathsRun => Ctrl.N
    /\ (pc = "done" /\ status = "GMT_NOERROR" /\ ~Explicit(args) /\ ~args.G)
         => pathsRun = {"indices"}

\* parse ran on -G alone and left the index table off.
C5_Witness == parseRet # "none" /\ ~Explicit(args) /\ args.G /\ ~Ctrl.N

TablePaths == {"edges", "voronoi", "polygons", "indices"}

Conflict(a) ==
    \/ a.G /\ a.Q
    \/ a.S /\ a.Q
    \/ a.G /\ ~(a.R /\ a.I # "none")
    \/ a.Q /\ ~a.R
    \/ a.I = "nonpos"

\* C7: with a conflicting configuration parse returns GMT_PARSE_ERROR and the run
\* returns that status; no record is read, the engine is not called and no grid
\* is created.
C7_ConflictsRejected ==
    Conflict(args) =>
       /\ ~readCalled /\ engineCalls = 0 /\ Grid = "NULL" /\ pathsRun = {}
       /\ parseRet # "none" =>
            (parseRet = "GMT_PARSE_ERROR" /\ pc = "done" /\ status = "GMT_PARSE_ERROR")

\* A run with -G -Q (and nothing else in conflict) that parse rejected.
C7_Witness ==
    /\ pc = "done" /\ status = "GMT_PARSE_ERROR"
    /\ args.G /\ args.Q /\ ~args.S /\ args.R /\ args.I = "pos"

(* ------------------------------ properties: errors --------------------- *)

\* C8: while no data point was read the engine is not called, no grid is written
\* and no record is put; a run that read its input to the end without finding a
\* data point (GMT_End_IO not failing) ends with GMT_RUNTIME_ERROR.
C8_NoPoints ==
    /\ n = 0 => (engineCalls = 0 /\ ~gridWritten /\ out = <<>> /\ pathsRun = {})
    /\ (pc = "done" /\ n = 0 /\ readCalled /\ failedAt # "GMT_End_IO in")
         => status = "GMT_RUNTIME_ERROR"

\* A gridding run that found the input empty.
C8_Witness ==
    pc = "done" /\ failedAt = "no points" /\ n = 0 /\ Ctrl.G /\ status = "GMT_RUNTIME_ERROR"

\* C9: when the run has returned after allocating the point buffers, every
\* allocated buffer has been released exactly once.
C9_BuffersReleased ==
    (pc = "done" /\ allocd # {}) => \A b \in allocd : mem[b] = "NULL" /\ freed[b] = 1

OutputIO == {"GMT_Init_IO out", "GMT_Begin_IO out", "GMT_End_IO out"}

\* C10 (amended): a run that ends with an error status has written the grid only
\* if the failing step is the initialization, begin or end of output I/O, and has
\* put records only if the failing step is the end of output I/O; a run failing at
\* any earlier step, the grid comment included, has written nothing.
C10_ArtifactsOnError ==
    (pc = "done" /\ status # "GMT_NOERROR") =>
       /\ gridWritten => failedAt \in OutputIO
       /\ out # <<>> => failedAt = "GMT_End_IO out"
       /\ failedAt \notin OutputIO => (~gridWritten /\ out = <<>>)

\* A run that wrote the grid and records and then failed in GMT_End_IO.
C10_Witness ==
    pc = "done" /\ status = "API_ERROR" /\ gridWritten /\ out # <<>> /\ failedAt = "GMT_End_IO out"

\* C10 as stated: a run that ends with an error status has written no grid and
\* no record.
C10_AsStated ==
    (pc = "done" /\ status # "GMT_NOERROR") => (~gridWritten /\ out = <<>>)

(* ------------------------------ properties: uncertainty ---------------- *)

\* The branch of the combination rule the tolerance selects for the node at
\* (xp, yp): the first vertex in order j, k, l at a distance below 2.22e-16 (on
\* these coordinates: at distance 0), else 4, the inverse-distance blend.
BranchByTolerance(V, xp, yp) ==
    IF Dist2(xp, yp, V[1])[1] = 0 THEN 1
    ELSE IF Dist2(xp, yp, V[2])[1] = 0 THEN 2
    ELSE IF Dist2(xp, yp, V[3])[1] = 0 THEN 3
    ELSE 4

\* C11: in uncertainty mode every written node holds the sigma of the branch the
\* tolerance selects: sqrt (uv_i) for the first vertex closer than the tolerance,
\* the blend whenever all three distances are at or above it.
C11_BranchByTolerance ==
    (PassDone /\ Ctrl.u /\ Ctrl.D = "none") =>
       \A rc \in lastWritten :
          LET val == data[ijp(rc[1], rc[2], Ctrl.r)]
          IN  /\ val[1] = 2
              /\ val[2] = BranchByTolerance(TriangleNo(tri), col_to_x(rc[2], Ctrl.r),
                                            row_to_y(rc[1], Ctrl.r))

\* C12: in a gridding run without -u the slope grid is never read, the arrays hh
\* and vv (not allocated in that run) are never indexed, and no slope sample is
\* taken for any node.
C12_UncertaintyOnlyWithU ==
    (parseRet = "GMT_NOERROR" /\ Ctrl.G /\ ~Ctrl.u) =>
       /\ ~slopesRead
       /\ ~hvIndexed
       /\ ~slopeSampled

(* ------------------------------ properties: plane fit ------------------ *)

\* The denominator (x_k - x_j)(y_l - y_j) - (y_k - y_j)(x_l - x_j) of a triangle.
Denominator(V) ==
    RSub(RMul(RSub(V[2].x, V[1].x), RSub(V[3].y, V[1].y)),
         RMul(RSub(V[2].y, V[1].y), RSub(V[3].x, V[1].x)))

\* C13: for every triangle the loop has processed whose denominator is not zero,
\* the fitted plane passes through all three vertices: a x_i + b y_i + c = z_i
\* for i = j, k, l.
C13_PlaneThroughVertices ==
    PassDone =>
       \A t \in 1 .. tri :
          LET V == TriangleNo(t)
              pl == PlaneFit(V)
          IN  Denominator(V)[1] # 0 =>
                \A i \in 1 .. 3 : PlaneAt(pl, V[i].x, V[i].y) = V[i].z

\* A processed triangle with a non-zero denominator whose plane is tilted in x and
\* in y and has three different vertex heights.
C13_Witness ==
    /\ PassDone
    /\ Denominator(TriangleNo(tri))[1] # 0
    /\ PlaneFit(TriangleNo(tri)).a[1] # 0
    /\ PlaneFit(TriangleNo(tri)).b[1] # 0
    /\ Cardinality({TriangleNo(tri)[i].z : i \in 1 .. 3}) = 3

(* ------------------------------ properties: implicit ------------------- *)

\* C14: once the `Triangle edges' branch has run, the reported number of unique
\* edges is at most 3 np; with np = 0 it is 0, no element of the edge array was
\* read and no segment header or coordinate record was put.
C14_EdgeCount ==
    "edges" \in pathsRun =>
       /\ n_edge <= 3 * np
       /\ np = 0 => (n_edge = 0 /\ "edge" \notin nullDeref /\ edge = <<>> /\ out = <<>>)

\* C15: in a run whose options passed validation the grid object is read only
\* after GMT_Create_Data made it; the map setup under -R -J never reads the
\* header of a grid that was not created.
C15_GridCreatedBeforeUse ==
    parseRet = "GMT_NOERROR" =>
       /\ "Grid" \notin nullDeref
       /\ (map_them /\ pc # "map_setup") => Grid # "NULL"

====
